---------------------------- MODULE Spec2Model ----------------------------
(*************************************************************************)
(* Model of scripts/metrics-agent.py: the three resource samplers, the    *)
(* snapshot assembler and the single-threaded HTTP server.                *)
(*                                                                        *)
(* Text is a sequence of one-character strings, so that split, strip and  *)
(* int() are computed the way the code computes them.  Decimal values     *)
(* rounded to one decimal place (the *_gb fields) are held in tenths:     *)
(* 20 stands for 2.0.                                                     *)
(*************************************************************************)
EXTENDS Integers, Sequences, FiniteSets, TLC

(* ------------------------------ bounds ------------------------------- *)

\* Lines of device-query output in one invocation.
MaxLines == 2
\* Requests that arrive during one run of the server.
MaxRequests == 2
\* Interrupt signals delivered during one run of the server.
MaxSigints == 1

(* ------------------------- text primitives --------------------------- *)

Digits == {"0", "1", "2", "3", "4", "5", "6", "7", "8", "9"}

Whitespace == {" ", "\t", "\n", "\r"}

DigitVal(c) ==
  CASE c = "0" -> 0 [] c = "1" -> 1 [] c = "2" -> 2 [] c = "3" -> 3
    [] c = "4" -> 4 [] c = "5" -> 5 [] c = "6" -> 6 [] c = "7" -> 7
    [] c = "8" -> 8 [] c = "9" -> 9

\* str.split(sep) for a one-character separator: the pieces between the
\* occurrences of sep, one more piece than there are occurrences.
Split(s, sep) ==
  LET seps  == {i \in 1..Len(s) : s[i] = sep}
      n     == Cardinality(seps)
      at(k) == IF k = 0 THEN 0
               ELSE IF k = n + 1 THEN Len(s) + 1
               ELSE CHOOSE i \in seps : Cardinality({j \in seps : j < i}) = k - 1
  IN  [k \in 1..(n + 1) |-> SubSeq(s, at(k - 1) + 1, at(k) - 1)]

RECURSIVE LStrip(_)
LStrip(s) ==
  IF s # << >> /\ Head(s) \in Whitespace THEN LStrip(Tail(s)) ELSE s

RECURSIVE RStrip(_)
RStrip(s) ==
  IF s # << >> /\ s[Len(s)] \in Whitespace
  THEN RStrip(SubSeq(s, 1, Len(s) - 1)) ELSE s

\* str.strip()
Strip(s) == RStrip(LStrip(s))

RECURSIVE Join(_, _)
Join(pieces, sep) ==
  IF pieces = << >> THEN << >>
  ELSE IF Len(pieces) = 1 THEN pieces[1]
  ELSE pieces[1] \o <<sep>> \o Join(Tail(pieces), sep)

RECURSIVE DigitsVal(_, _)
DigitsVal(s, acc) ==
  IF s = << >> THEN acc ELSE DigitsVal(Tail(s), 10 * acc + DigitVal(Head(s)))

Unsigned(s) ==
  IF s # << >> /\ Head(s) \in {"+", "-"} THEN Tail(s) ELSE s

\* int(s) succeeds: optional surrounding whitespace, optional sign, digits.
\* (Underscore digit grouping is outside the alphabet of the model.)
IsInt(s) ==
  LET u == Unsigned(Strip(s))
  IN  u # << >> /\ \A i \in 1..Len(u) : u[i] \in Digits

\* int(s), defined where IsInt(s).
ToInt(s) ==
  LET t == Strip(s)
      v == DigitsVal(Unsigned(t), 0)
  IN  IF t # << >> /\ Head(t) = "-" THEN 0 - v ELSE v

NA == <<"[", "N", "/", "A", "]">>

(* --------------------------- GPU sampler ----------------------------- *)

MiBPerGB == 1024

\* round(n / d): the integer nearest to the exact quotient, a tie going to
\* the even one (Python 3 round).
RoundHalfEven(n, d) ==
  LET q == n \div d
      r == n % d
  IN  IF 2 * r < d THEN q
      ELSE IF 2 * r > d THEN q + 1
      ELSE IF q % 2 = 0 THEN q ELSE q + 1

\* round(n / d, 1), in tenths.
RoundTenths(n, d) == RoundHalfEven(10 * n, d)

\* parts = [p.strip() for p in line.split(',')]
Parts(line) ==
  LET raw == Split(line, ",") IN [i \in 1..Len(raw) |-> Strip(raw[i])]

\* The dict literal raises ValueError: int() of a field that is no integer,
\* reached for parts[0] always and for parts[2..5] unless they are '[N/A]'.
RecordRaises(parts) ==
  \/ ~IsInt(parts[1])
  \/ \E i \in 3..6 : parts[i] # NA /\ ~IsInt(parts[i])

\* Variant: parts[3] and parts[4] taken for each other.
FlippedMemRecord(parts) ==
  [index               |-> ToInt(parts[1]),
   name                |-> parts[2],
   utilization_percent |-> IF parts[3] # NA THEN ToInt(parts[3]) ELSE 0,
   memory_used_gb      |-> IF parts[5] # NA
                           THEN RoundTenths(ToInt(parts[5]), MiBPerGB) ELSE 0,
   memory_total_gb     |-> IF parts[4] # NA
                           THEN RoundTenths(ToInt(parts[4]), MiBPerGB) ELSE 0,
   temperature_c       |-> IF parts[6] # NA THEN ToInt(parts[6]) ELSE 0]

\* Variant: the memory fields truncated to one decimal, not rounded.
TruncatedMemRecord(parts) ==
  [index               |-> ToInt(parts[1]),
   name                |-> parts[2],
   utilization_percent |-> IF parts[3] # NA THEN ToInt(parts[3]) ELSE 0,
   memory_used_gb      |-> IF parts[4] # NA
                           THEN (10 * ToInt(parts[4])) \div MiBPerGB ELSE 0,
   memory_total_gb     |-> IF parts[5] # NA
                           THEN (10 * ToInt(parts[5])) \div MiBPerGB ELSE 0,
   temperature_c       |-> IF parts[6] # NA THEN ToInt(parts[6]) ELSE 0]

\* The record appended for a line, defined where ~RecordRaises(parts).
GpuRecord(parts) ==
  [index               |-> ToInt(parts[1]),
   name                |-> parts[2],
   utilization_percent |-> IF parts[3] # NA THEN ToInt(parts[3]) ELSE 0,
   memory_used_gb      |-> IF parts[4] # NA
                           THEN RoundTenths(ToInt(parts[4]), MiBPerGB) ELSE 0,
   memory_total_gb     |-> IF parts[5] # NA
                           THEN RoundTenths(ToInt(parts[5]), MiBPerGB) ELSE 0,
   temperature_c       |-> IF parts[6] # NA THEN ToInt(parts[6]) ELSE 0]

\* The for loop over the output lines.  A ValueError leaves the loop for the
\* handler outside it, with gpus holding what was appended so far.
RECURSIVE GpuLoop(_, _)
GpuLoop(lines, gpus) ==
  IF lines = << >> THEN gpus
  ELSE LET line  == Head(lines)
           parts == Parts(line)
       IN  IF line = << >> \/ Len(parts) < 6 THEN GpuLoop(Tail(lines), gpus)
           ELSE IF RecordRaises(parts) THEN gpus
           ELSE GpuLoop(Tail(lines), Append(gpus, GpuRecord(parts)))

\* How subprocess.run ended: "ok" (a CompletedProcess with returncode and
\* stdout), or an exception: "notfound" (FileNotFoundError), "timeout"
\* (TimeoutExpired), "oserror" (any other Exception).
RunKinds == {"ok", "notfound", "timeout", "oserror"}

\* Variant: TimeoutExpired not caught.
GpuUncaughtTimeout(run) ==
  IF run.kind = "timeout" THEN [raised |-> TRUE, gpus |-> << >>]
  ELSE IF run.kind = "ok" /\ run.returncode = 0
  THEN [raised |-> FALSE, gpus |-> GpuLoop(Split(Strip(run.stdout), "\n"), << >>)]
  ELSE [raised |-> FALSE, gpus |-> << >>]

\* get_gpu_metrics(): what it returns, or that it raised.
get_gpu_metrics(run) ==
  IF run.kind = "ok" /\ run.returncode = 0
  THEN [raised |-> FALSE, gpus |-> GpuLoop(Split(Strip(run.stdout), "\n"), << >>)]
  ELSE [raised |-> FALSE, gpus |-> << >>]

(* ------------------------- device-query output ----------------------- *)

TeslaLine ==
  <<"0", ",", " ", "T", "e", "s", "l", "a", " ", "T", "4", ",", " ", "4", "5",
    ",", " ", "2", "0", "4", "8", ",", " ", "1", "6", "3", "8", "4", ",", " ",
    "6", "0">>

\* 256 MiB is the tie 0.25 GB; 1000 MiB is 0.9765625 GB.
TieLine ==
  Join(<< <<"1">>, <<" ", " ", "A", "1", "0", "0", " ">>, <<" ", "7">>,
          <<" ", "2", "5", "6">>, <<" ", "1", "0", "0", "0">>,
          <<" ", "3", "3">> >>, ",")

SentinelLine ==
  Join(<< <<"2">>, <<" ", "X">>, <<" ">> \o NA, <<" ">> \o NA, <<" ">> \o NA,
          <<" ">> \o NA >>, ",")

SentinelIndexLine ==
  Join(<< NA, <<" ", "X">>, <<" ", "5">>, <<" ", "5", "1", "2">>,
          <<" ", "2", "0", "4", "8">>, <<" ", "4", "0">> >>, ",")

\* memory.used above memory.total
OverLine ==
  Join(<< <<"3">>, <<" ", "X">>, <<" ", "5">>, <<" ", "4", "0", "9", "6">>,
          <<" ", "2", "0", "4", "8">>, <<" ", "4", "0">> >>, ",")

\* a utilization that is neither an integer nor the sentinel
BadNumberLine ==
  Join(<< <<"4">>, <<" ", "X">>, <<" ", "e", "r", "r">>,
          <<" ", "1", "0", "2", "4">>, <<" ", "2", "0", "4", "8">>,
          <<" ", "4", "0">> >>, ",")

ShortLine == Join(<< <<"5">>, <<" ", "X">>, <<" ", "5">> >>, ",")

SevenFieldLine ==
  Join(<< <<"6">>, <<" ", "X">>, <<" ", "9">>, <<" ", "1", "0", "2", "4">>,
          <<" ", "2", "0", "4", "8">>, <<" ", "4", "0">>, <<" ", "x">> >>, ",")

GpuLines ==
  {TeslaLine, TieLine, SentinelLine, SentinelIndexLine, OverLine,
   BadNumberLine, ShortLine, SevenFieldLine, << >>}

\* The lines the device-query tool prints while the server runs.
ServerLines == {TeslaLine, OverLine, BadNumberLine}

LineSeqs(lines) == UNION {[1..n -> lines] : n \in 0..MaxLines}

\* stdout of a tool: its lines, each ended by a newline.
Stdout(lines) ==
  IF lines = << >> THEN << >> ELSE Join(lines, "\n") \o <<"\n">>

Completed(rc, lines) ==
  [kind |-> "ok", returncode |-> rc, stdout |-> Stdout(lines)]

Failed(k) == [kind |-> k, returncode |-> 0, stdout |-> << >>]

NotRun == Failed("notrun")

FailedRuns == {Failed(k) : k \in RunKinds \ {"ok"}}

(* -------------------------- system sampler --------------------------- *)

\* Byte counts of the OS are held in MiB (multiples of 2^20 bytes), so that
\* bytes / 1024**3 is mib / 1024; cpu_percent is held in tenths of a percent.

\* Variant: a failing query caught and zero-filled.
SystemZeroFilled(os) ==
  IF os.failed # "none"
  THEN [raised |-> FALSE,
        system |-> [cpu_percent |-> 0, ram_used_gb |-> 0, ram_total_gb |-> 0,
                    disk_used_gb |-> 0, disk_total_gb |-> 0]]
  ELSE [raised |-> FALSE,
        system |-> [cpu_percent   |-> RoundHalfEven(os.cpu, 10),
                    ram_used_gb   |-> RoundTenths(os.mem.used, MiBPerGB),
                    ram_total_gb  |-> RoundTenths(os.mem.total, MiBPerGB),
                    disk_used_gb  |-> RoundTenths(os.disk.used, MiBPerGB),
                    disk_total_gb |-> RoundTenths(os.disk.total, MiBPerGB)]]

\* get_system_metrics(): no try; a failing psutil query raises out of it.
get_system_metrics(os) ==
  IF os.failed # "none"
  THEN [raised |-> TRUE,
        system |-> [cpu_percent |-> 0, ram_used_gb |-> 0, ram_total_gb |-> 0,
                    disk_used_gb |-> 0, disk_total_gb |-> 0]]
  ELSE [raised |-> FALSE,
        system |-> [cpu_percent   |-> RoundHalfEven(os.cpu, 10),
                    ram_used_gb   |-> RoundTenths(os.mem.used, MiBPerGB),
                    ram_total_gb  |-> RoundTenths(os.mem.total, MiBPerGB),
                    disk_used_gb  |-> RoundTenths(os.disk.used, MiBPerGB),
                    disk_total_gb |-> RoundTenths(os.disk.total, MiBPerGB)]]

\* What the three psutil queries give: values, or the first one that fails.
OsResults ==
  [failed : {"none", "cpu_percent", "virtual_memory", "disk_usage"},
   cpu    : {125},
   mem    : {[used |-> 3000, total |-> 8192]},
   disk   : {[used |-> 51200, total |-> 102400]}]
  \cup
  [failed : {"none"},
   cpu    : {1000},
   mem    : {[used |-> 256, total |-> 768]},
   disk   : {[used |-> 0, total |-> 1]}]

NoSystem ==
  [cpu_percent |-> 0, ram_used_gb |-> 0, ram_total_gb |-> 0,
   disk_used_gb |-> 0, disk_total_gb |-> 0]

(* ------------------------- container counter ------------------------- *)

NonEmpty(lines) == SelectSeq(lines, LAMBDA l : l # << >>)

\* get_container_count(): every exception, KeyboardInterrupt included, is
\* swallowed by the bare except and gives 0.
get_container_count(run) ==
  IF run.kind = "ok" /\ run.returncode = 0
  THEN Len(NonEmpty(Split(Strip(run.stdout), "\n")))
  ELSE 0

ContainerId == <<"a", "3", "f">>

DockerRuns ==
  {Completed(0, [i \in 1..n |-> ContainerId]) : n \in 0..MaxLines}
  \cup {Completed(1, << >>), Completed(1, <<ContainerId>>)}
  \cup FailedRuns

GpuRuns ==
  {Completed(0, ls) : ls \in LineSeqs(ServerLines)}
  \cup {Completed(1, << >>), Completed(1, <<TeslaLine>>)}
  \cup FailedRuns

Interrupted == Failed("interrupt")

(* ---------------------------- HTTP server ---------------------------- *)

VARIABLES
  pc,          \* where the main thread is
  queue,       \* connections waiting in the listen backlog, oldest first
  arrived,     \* requests that have arrived so far
  cur,         \* the request accepted last (in handling unless pc = "idle")
  resp,        \* what has been written to cur's connection
  osRes,       \* what the OS queries gave for cur
  gpuRun,      \* how the device-query tool ran for cur
  dockerRun,   \* how the container-runtime tool ran for cur
  invoked,     \* the samplers invoked for cur
  system,      \* cur's system fragment
  gpus,        \* cur's gpus fragment
  lastAnswered,\* id of the request answered last
  sigints,     \* interrupt signals delivered so far
  is_shut_down \* the event serve_forever sets when it is left

vars ==
  <<pc, queue, arrived, cur, resp, osRes, gpuRun, dockerRun, invoked, system,
    gpus, lastAnswered, sigints, is_shut_down>>

Methods == {"GET", "POST", "HEAD"}

Paths == {"/", "/metrics", "/health", "/unknown"}

NoReq == [id |-> 0, method |-> "", path |-> ""]

EmptyBody == [kind |-> "empty"]

NoResp == [status |-> 0, ctype |-> "", cors |-> "", body |-> EmptyBody]

NoOs ==
  [failed |-> "notrun", cpu |-> 0, mem |-> [used |-> 0, total |-> 0],
   disk |-> [used |-> 0, total |-> 0]]

\* collect_metrics(): the Snapshot, once the three samplers have returned.
collect_metrics(sys, gs, running) ==
  [timestamp  |-> "utcnow-Z",
   system     |-> sys,
   gpus       |-> gs,
   containers |-> [running |-> running]]

\* json.dumps(metrics, indent=2).encode()
JsonBody(doc) == [kind |-> "json", doc |-> doc]

MetricsResponse(doc) ==
  [status |-> 200, ctype |-> "application/json", cors |-> "*",
   body |-> JsonBody(doc)]

HealthResponse ==
  [status |-> 200, ctype |-> "text/plain", cors |-> "",
   body |-> [kind |-> "text", text |-> <<"O", "K">>]]

NotFoundResponse == [status |-> 404, ctype |-> "", cors |-> "", body |-> EmptyBody]

\* The class defines do_GET only: for any other method the base handler
\* finds no do_<METHOD> and answers send_error(501), with an HTML error
\* page unless the method is HEAD.
UnsupportedResponse(method) ==
  [status |-> 501, ctype |-> "text/html;charset=utf-8", cors |-> "",
   body |-> IF method = "HEAD" THEN EmptyBody
            ELSE [kind |-> "html", text |-> "Unsupported method"]]

\* Variant: /health taken by the first branch.
RouteHealthCollects(req) ==
  IF req.method # "GET" THEN "unsupported"
  ELSE IF req.path = "/metrics" \/ req.path = "/" \/ req.path = "/health"
  THEN "collect"
  ELSE "notfound"

\* Variant: the /health branch as the final else.
RouteUnknownIsHealth(req) ==
  IF req.method # "GET" THEN "unsupported"
  ELSE IF req.path = "/metrics" \/ req.path = "/" THEN "collect"
  ELSE "health"

\* The branch a request takes in the handler.
Route(req) ==
  IF req.method # "GET" THEN "unsupported"
  ELSE IF req.path = "/metrics" \/ req.path = "/" THEN "collect"
  ELSE IF req.path = "/health" THEN "health"
  ELSE "notfound"

\* The response of the branches that call no sampler.
StaticResponse(req) ==
  CASE Route(req) = "health"      -> HealthResponse
    [] Route(req) = "notfound"    -> NotFoundResponse
    [] Route(req) = "unsupported" -> UnsupportedResponse(req.method)

Init ==
  /\ pc = "idle"
  /\ queue = << >>
  /\ arrived = 0
  /\ cur = NoReq
  /\ resp = NoResp
  /\ osRes = NoOs
  /\ gpuRun = NotRun
  /\ dockerRun = NotRun
  /\ invoked = {}
  /\ system = NoSystem
  /\ gpus = << >>
  /\ lastAnswered = 0
  /\ sigints = 0
  /\ is_shut_down = FALSE

\* A client connects and sends a request; it waits in the listen backlog.
Arrive ==
  /\ pc \notin {"terminated"}
  /\ arrived < MaxRequests
  /\ \E m \in Methods, p \in Paths :
       queue' = Append(queue, [id |-> arrived + 1, method |-> m, path |-> p])
  /\ arrived' = arrived + 1
  /\ UNCHANGED <<pc, cur, resp, osRes, gpuRun, dockerRun, invoked, system,
                 gpus, lastAnswered, sigints, is_shut_down>>

\* Variant: a connection accepted while a request is in handling.
AcceptWhileBusy == pc \notin {"interrupted", "terminated"} /\ queue # << >>

\* serve_forever takes the next connection only between two requests.
CanAccept == pc = "idle" /\ queue # << >>

\* The backlog hands out connections oldest first.
NextConnection(q) == Head(q)

Remaining(q, r) == SelectSeq(q, LAMBDA x : x # r)

\* serve_forever accepts a connection and runs the handler on it, up to
\* the handler's first blocking call or to its end.
Accept ==
  /\ CanAccept
  /\ LET req == NextConnection(queue) IN
       /\ queue' = Remaining(queue, req)
       /\ cur' = req
       /\ osRes' = NoOs
       /\ gpuRun' = NotRun
       /\ dockerRun' = NotRun
       /\ invoked' = {}
       /\ system' = NoSystem
       /\ gpus' = << >>
       /\ IF Route(req) = "collect"
          THEN /\ pc' = "system"
               /\ resp' = NoResp
               /\ UNCHANGED lastAnswered
          ELSE /\ pc' = "idle"
               /\ resp' = StaticResponse(req)
               /\ lastAnswered' = req.id
  /\ UNCHANGED <<arrived, sigints, is_shut_down>>

\* get_system_metrics() returns or raises.  An exception leaves do_GET with
\* nothing written; the server reports it and closes the connection.
SystemSampler ==
  /\ pc = "system"
  /\ \E os \in OsResults :
       LET r == get_system_metrics(os) IN
         /\ osRes' = os
         /\ invoked' = invoked \cup {"system"}
         /\ IF r.raised
            THEN /\ pc' = "idle"
                 /\ UNCHANGED system
            ELSE /\ pc' = "gpu"
                 /\ system' = r.system
  /\ UNCHANGED <<queue, arrived, cur, resp, gpuRun, dockerRun, gpus,
                 lastAnswered, sigints, is_shut_down>>

\* get_gpu_metrics() returns, the tool having run one of the ways of runs.
GpuSamplerWith(runs) ==
  /\ pc = "gpu"
  /\ \E run \in runs :
       LET r == get_gpu_metrics(run) IN
         /\ gpuRun' = run
         /\ invoked' = invoked \cup {"gpu"}
         /\ IF r.raised
            THEN /\ pc' = "idle"
                 /\ UNCHANGED gpus
            ELSE /\ pc' = "container"
                 /\ gpus' = r.gpus
  /\ UNCHANGED <<queue, arrived, cur, resp, osRes, dockerRun, system,
                 lastAnswered, sigints, is_shut_down>>

GpuSampler == GpuSamplerWith(GpuRuns)

\* The rest of the handler once the container counter has its result.
Respond(run) ==
  /\ dockerRun' = run
  /\ invoked' = invoked \cup {"container"}
  /\ resp' = MetricsResponse(
               collect_metrics(system, gpus, get_container_count(run)))
  /\ lastAnswered' = cur.id
  /\ pc' = "idle"

\* get_container_count() returns; the Snapshot is serialized and written.
ContainerCounter ==
  /\ pc = "container"
  /\ \E run \in DockerRuns : Respond(run)
  /\ UNCHANGED <<queue, arrived, cur, osRes, gpuRun, system, gpus, sigints,
                 is_shut_down>>

\* SIGINT while the main thread waits in serve_forever, in the system
\* sampler or in the GPU sampler (whose except Exception lets it through):
\* KeyboardInterrupt unwinds the handler, if one is running, with nothing
\* written (the server closes its connection on the way) and leaves
\* serve_forever, which sets its event in its finally clause.
SigintPropagates ==
  /\ pc \in {"idle", "system", "gpu"}
  /\ sigints < MaxSigints
  /\ sigints' = sigints + 1
  /\ pc' = "interrupted"
  /\ is_shut_down' = TRUE
  /\ cur' = NoReq
  /\ resp' = NoResp
  /\ osRes' = NoOs
  /\ gpuRun' = NotRun
  /\ dockerRun' = NotRun
  /\ invoked' = {}
  /\ system' = NoSystem
  /\ gpus' = << >>
  /\ UNCHANGED <<queue, arrived, lastAnswered>>

\* SIGINT while the main thread is inside get_container_count: the bare
\* except swallows KeyboardInterrupt, 0 is returned and the handler goes on.
SigintInContainerCounter ==
  /\ pc = "container"
  /\ sigints < MaxSigints
  /\ sigints' = sigints + 1
  /\ Respond(Interrupted)
  /\ UNCHANGED <<queue, arrived, cur, osRes, gpuRun, system, gpus,
                 is_shut_down>>

\* main's except clause: server.shutdown() waits for serve_forever's event;
\* main returns and the process ends, its listening socket with it.
Shutdown ==
  /\ pc = "interrupted"
  /\ is_shut_down
  /\ pc' = "terminated"
  /\ queue' = << >>
  /\ UNCHANGED <<arrived, cur, resp, osRes, gpuRun, dockerRun, invoked,
                 system, gpus, lastAnswered, sigints, is_shut_down>>

Next ==
  \/ Arrive
  \/ Accept
  \/ SystemSampler
  \/ GpuSampler
  \/ ContainerCounter
  \/ SigintPropagates
  \/ SigintInContainerCounter
  \/ Shutdown

Spec == Init /\ [][Next]_vars

(* ------------ the GPU sampler on the whole range of outputs ---------- *)

AllGpuRuns ==
  {Completed(0, ls) : ls \in LineSeqs(GpuLines)}
  \cup {Completed(1, << >>), Completed(1, <<TeslaLine>>)}
  \cup FailedRuns

\* The server inside a GET /metrics or GET / request, the system sampler
\* done and the GPU sampler about to run the device-query tool.
InitGpu ==
  /\ pc = "gpu"
  /\ queue = << >>
  /\ arrived = 1
  /\ cur \in {[id |-> 1, method |-> "GET", path |-> p] : p \in {"/", "/metrics"}}
  /\ resp = NoResp
  /\ osRes \in {os \in OsResults : os.failed = "none"}
  /\ gpuRun = NotRun
  /\ dockerRun = NotRun
  /\ invoked = {"system"}
  /\ system = get_system_metrics(osRes).system
  /\ gpus = << >>
  /\ lastAnswered = 0
  /\ sigints = 0
  /\ is_shut_down = FALSE

DeviceQuery == GpuSamplerWith(AllGpuRuns)

NextGpu == DeviceQuery

SpecGpu == InitGpu /\ [][NextGpu]_vars

(* ============================ properties ============================= *)

Collecting == {"system", "gpu", "container"}

KnownPaths == {"/", "/metrics", "/health"}

ToolFailed(run) == run.kind # "ok" \/ run.returncode # 0

\* cur's handling has ended inside serve_forever.
Finished == cur # NoReq /\ pc = "idle"

\* The lines the loop of the GPU sampler goes over.
OutputLines(run) == Split(Strip(run.stdout), "\n")

\* The lines that pass the two tests of the loop (non-empty, six fields).
SixFieldLines(run) ==
  SelectSeq(OutputLines(run), LAMBDA l : l # << >> /\ Len(Split(l, ",")) >= 6)

\* The GPU sampler has returned from a successful run of the tool.
Sampled == pc = "container" /\ gpuRun.kind = "ok" /\ gpuRun.returncode = 0

(* ------------------------------- C1 ---------------------------------- *)

C2_NoInterruptAbsorbed ==
  [][sigints' = sigints + 1 => pc' = "interrupted"]_vars

(* ------------------------------- C3 ---------------------------------- *)

\* A line that, taken alone, yields a record.
ParsesAlone(line) ==
  line # << >> /\ Len(Parts(line)) >= 6 /\ ~RecordRaises(Parts(line))

\* C3: after a successful run of the tool, gpus holds one record for each
\* parseable line of the output, in line order, whatever malformed lines
\* stand before or after it.
C3_MalformedLineDropsOnlyItself ==
  Sampled =>
    LET good == SelectSeq(OutputLines(gpuRun), ParsesAlone)
    IN  /\ Len(gpus) = Len(good)
        /\ \A i \in 1..Len(good) :
             i <= Len(gpus) => gpus[i] = GpuRecord(Parts(good[i]))

(* ------------------------------- C4 ---------------------------------- *)

NumericFields == {1, 3, 4, 5, 6}

IntOrSentinel(f) == f = NA \/ IsInt(f)

FieldOf(rec, k) ==
  CASE k = 1 -> rec.index
    [] k = 3 -> rec.utilization_percent
    [] k = 4 -> rec.memory_used_gb
    [] k = 5 -> rec.memory_total_gb
    [] k = 6 -> rec.temperature_c

\* C4: when the first line of the output has at least 6 fields and each of
\* its numeric fields is an integer or '[N/A]', the line produces a record
\* in which every '[N/A]' field is 0.
C4_SentinelIsZeroInEveryNumericField ==
  (Sampled /\ OutputLines(gpuRun)[1] # << >>) =>
    LET parts == Parts(OutputLines(gpuRun)[1])
    IN  (Len(parts) >= 6 /\ \A k \in NumericFields : IntOrSentinel(parts[k]))
          => /\ gpus # << >>
             /\ \A k \in NumericFields :
                  parts[k] = NA => FieldOf(gpus[1], k) = 0

(* ------------------------------- C5 ---------------------------------- *)

SnapshotKeys == {"timestamp", "system", "gpus", "containers"}

\* C5: when the system sampler has succeeded, the request ends with status
\* 200 and a Snapshot with all four sections, whatever the two tools did;
\* a failed device-query tool gives gpus = [] and a failed container-runtime
\* tool gives containers.running = 0.
C5_ToolFailuresTolerated ==
  (Finished /\ Route(cur) = "collect" /\ osRes.failed = "none")
    => /\ resp.status = 200
       /\ resp.body.kind = "json"
       /\ DOMAIN resp.body.doc = SnapshotKeys
       /\ resp.body.doc.system = get_system_metrics(osRes).system
       /\ ToolFailed(gpuRun) => resp.body.doc.gpus = << >>
       /\ ToolFailed(dockerRun) => resp.body.doc.containers.running = 0

C5_Witness ==
  /\ Finished /\ Route(cur) = "collect"
  /\ gpuRun.kind = "timeout" /\ dockerRun.kind = "notfound"
  /\ resp.status = 200
  /\ resp.body.doc.gpus = << >>
  /\ resp.body.doc.containers.running = 0

(* ------------------------------- C6 ---------------------------------- *)

\* C6: when an OS query of the system sampler fails, nothing is written to
\* the request's connection, and neither the GPU sampler nor the container
\* counter is invoked for the request.
C6_SystemFailureAbortsRequest ==
  (osRes.failed \in {"cpu_percent", "virtual_memory", "disk_usage"})
    => /\ resp = NoResp
       /\ invoked = {"system"}
       /\ gpuRun = NotRun /\ dockerRun = NotRun
       /\ pc \notin {"gpu", "container"}

C6_Witness ==
  /\ Finished /\ Route(cur) = "collect"
  /\ osRes.failed = "virtual_memory"
  /\ resp = NoResp

(* ------------------------------- C7 ---------------------------------- *)

ReturnedGpus ==
  IF resp.status = 200 /\ resp.body.kind = "json"
  THEN resp.body.doc.gpus ELSE << >>

\* C7 as stated: in every Snapshot returned, memory_used_gb is at most
\* memory_total_gb for every GPU entry in which both are non-zero.
C7_UsedAtMostTotal ==
  \A i \in 1..Len(ReturnedGpus) :
    (ReturnedGpus[i].memory_used_gb # 0 /\ ReturnedGpus[i].memory_total_gb # 0)
      => ReturnedGpus[i].memory_used_gb <= ReturnedGpus[i].memory_total_gb

\* C7 amended: the same, for the entries whose line of tool output reports
\* memory.used <= memory.total (entry i comes from the i-th line with six
\* fields).
C7_UsedAtMostTotalWhenToolSaysSo ==
  LET returned == ReturnedGpus
      src      == SixFieldLines(gpuRun)
  IN  returned # << >> =>
        \A i \in 1..Len(returned) :
          LET parts == Parts(src[i])
              rec   == returned[i]
          IN  (/\ rec.memory_used_gb # 0 /\ rec.memory_total_gb # 0
               /\ ToInt(parts[4]) <= ToInt(parts[5]))
                => rec.memory_used_gb <= rec.memory_total_gb

C7_Witness ==
  /\ Len(ReturnedGpus) >= 1
  /\ ReturnedGpus[1].memory_used_gb # 0
  /\ ReturnedGpus[1].memory_used_gb < ReturnedGpus[1].memory_total_gb

(* ------------------------------- C8 ---------------------------------- *)

\* C8: GET /health is answered with status 200, Content-Type text/plain and
\* the body 'OK', and none of the three samplers is invoked for it, whatever
\* was handled before.
C8_HealthAlwaysOK ==
  (cur # NoReq /\ cur.method = "GET" /\ cur.path = "/health")
    => /\ resp.status = 200
       /\ resp.ctype = "text/plain"
       /\ resp.body = [kind |-> "text", text |-> <<"O", "K">>]
       /\ invoked = {}
       /\ pc \notin Collecting

C8_Witness ==
  /\ cur.method = "GET" /\ cur.path = "/health" /\ cur.id = 2
  /\ resp.status = 200
  /\ pc = "idle"

(* ------------------------------- C9 ---------------------------------- *)

IsPrefix(a, b) == Len(a) <= Len(b) /\ SubSeq(b, 1, Len(a)) = a

\* C9: while a request is in collection it stays the request in handling
\* until its handling ends (by its response, by an exception or by an
\* interrupt), no other request is taken from the backlog and the only
\* response that can be written is its own; every response is for a request
\* that arrived after all those answered before, and before all those still
\* waiting.
C9_OneRequestAtATime ==
  [][/\ pc \in Collecting =>
          /\ pc' # "interrupted" => cur' = cur
          /\ IsPrefix(queue, queue')
          /\ resp' # resp => (pc' = "idle" /\ lastAnswered' = cur.id)
     /\ lastAnswered' # lastAnswered =>
          /\ lastAnswered' > lastAnswered
          /\ lastAnswered' = cur'.id
          /\ \A i \in 1..Len(queue') : queue'[i].id > lastAnswered'
    ]_vars

C9_Witness ==
  /\ pc = "container"
  /\ queue # << >>
  /\ queue[1].method = "GET" /\ queue[1].path = "/health"
  /\ resp = NoResp

(* ------------------------------- C10 --------------------------------- *)

DigitChar(d) ==
  CASE d = 0 -> "0" [] d = 1 -> "1" [] d = 2 -> "2" [] d = 3 -> "3"
    [] d = 4 -> "4" [] d = 5 -> "5" [] d = 6 -> "6" [] d = 7 -> "7"
    [] d = 8 -> "8" [] d = 9 -> "9"

\* The decimal numeral of a non-negative integer.
RECURSIVE Decimal(_)
Decimal(n) ==
  IF n < 10 THEN <<DigitChar(n)>>
  ELSE Append(Decimal(n \div 10), DigitChar(n % 10))

\* A numeral of a non-negative integer, without sign or leading zero.
IsNumeral(f) ==
  /\ f # << >>
  /\ \A i \in 1..Len(f) : f[i] \in Digits
  /\ Len(f) > 1 => f[1] # "0"

\* name is field with the whitespace around it removed.
IsTrimOf(name, field) ==
  /\ name # << >> => (name[1] \notin Whitespace /\ name[Len(name)] \notin Whitespace)
  /\ \E a \in 0..Len(field) :
       /\ a + Len(name) <= Len(field)
       /\ SubSeq(field, a + 1, a + Len(name)) = name
       /\ \A i \in 1..Len(field) :
            (i <= a \/ i > a + Len(name)) => field[i] \in Whitespace

\* tenths is mib / 1024 rounded to one decimal: no tenth is nearer.
IsNearestTenth(tenths, mib) ==
  LET err == 10 * mib - MiBPerGB * tenths
  IN  2 * err <= MiBPerGB /\ 2 * err >= 0 - MiBPerGB

\* rec is the GpuMetric the claim gives for a line 'i, name, u, mu, mt, t'.
IsMetricOf(rec, line) ==
  LET raw == Split(line, ",")
      num(k) == Strip(raw[k])
  IN  /\ DOMAIN rec = {"index", "name", "utilization_percent",
                       "memory_used_gb", "memory_total_gb", "temperature_c"}
      /\ Decimal(rec.index) = num(1)
      /\ IsTrimOf(rec.name, raw[2])
      /\ Decimal(rec.utilization_percent) = num(3)
      /\ \E mu \in {ToInt(num(4))} :
           Decimal(mu) = num(4) /\ IsNearestTenth(rec.memory_used_gb, mu)
      /\ \E mt \in {ToInt(num(5))} :
           Decimal(mt) = num(5) /\ IsNearestTenth(rec.memory_total_gb, mt)
      /\ Decimal(rec.temperature_c) = num(6)

\* A line of exactly six fields whose numeric fields are numerals.
IsSixNumeralLine(line) ==
  LET raw == Split(line, ",")
  IN  /\ Len(raw) = 6
      /\ \A k \in NumericFields : IsNumeral(Strip(raw[k]))

TeslaMetric ==
  [index |-> 0, name |-> <<"T", "e", "s", "l", "a", " ", "T", "4">>,
   utilization_percent |-> 45, memory_used_gb |-> 20,
   memory_total_gb |-> 160, temperature_c |-> 60]

\* C10: the record emitted for a line 'i, name, u, mu, mt, t' of
\* non-negative integers is {i, trimmed name, u, mu/1024 and mt/1024 to one
\* decimal, t}; such a line standing first among the six-field lines does
\* emit its record, and the Tesla T4 line gives the record of the example.
C10_LineToMetric ==
  Sampled =>
    LET src == SixFieldLines(gpuRun)
    IN  /\ \A i \in 1..Len(gpus) :
             IsSixNumeralLine(src[i]) =>
               /\ IsMetricOf(gpus[i], src[i])
               /\ src[i] = TeslaLine => gpus[i] = TeslaMetric
        /\ (src # << >> /\ IsSixNumeralLine(src[1])) => gpus # << >>

C10_Witness ==
  /\ Sampled
  /\ OutputLines(gpuRun) = <<TeslaLine>>
  /\ gpus = <<TeslaMetric>>

=============================================================================
